---- MODULE Spec2Model ----
(***************************************************************************)
(* Model of agent1.1.py: ContinuousChatCalendarAssistant.                  *)
(*                                                                         *)
(* Time is counted in half-hour slots of local wall-clock time since       *)
(* Monday 2024-01-01T00:00 (slot 0), so that weekday() of a slot is        *)
(* (slot \div SlotsPerDay) % 7 with Monday = 0, as datetime.weekday().     *)
(* The local zone returned by tzlocal is modelled as a fixed-offset zone.  *)
(* Texts are sequences of tokens (fence marker, language tag, whitespace,  *)
(* JSON punctuation, JSON objects, JSON scalars, prose).                   *)
(***************************************************************************)
EXTENDS Integers, Sequences, FiniteSets, TLC

VARIABLES
    pc,                   \* position of the running chat turn
    user_message,         \* chat(): user_message
    conversation_history, \* self.conversation_history
    llm_response,         \* chat(): llm_response
    extract_response,     \* _extract_calendar_events(): llm_response (line 131)
    decoded,              \* _extract_calendar_events(): events = json.loads(json_str)
    events,               \* _adjust_event_dates(): the list being rewritten in place
    idx,                  \* _adjust_event_dates(): position of the for loop
    start_time,           \* _adjust_event_dates(): start_time
    end_time,             \* _adjust_event_dates(): end_time
    now,                  \* _adjust_event_dates(): now
    detected,             \* chat(): events
    confirmation,         \* chat(): confirmation
    results,              \* _create_calendar_events(): results
    cidx,                 \* _create_calendar_events(): position of the for loop
    insert_log,           \* insert requests the calendar service received this turn
    scheduling_results    \* chat(): scheduling_results

vars == <<pc, user_message, conversation_history, llm_response, extract_response, decoded,
          events, idx, start_time, end_time, now, detected, confirmation,
          results, cidx, insert_log, scheduling_results>>

----------------------------------------------------------------------------
(* Bounds of the model *)

MaxDay == 6
MaxNowDay == 7
MaxEvents == 2
MaxBodyLen == 3
MaxTurns == 2
MaxBatch == 3

(* Units and program constants *)

SlotsPerDay == 24 * 2
FRIDAY == 4
DaysPerWeek == 7
LocalOffset == 2

----------------------------------------------------------------------------
(* Timestamps: the text of a dateTime field *)

\* a dateTime string: ok = it is ISO-8601; aware = it carries an offset
Naive(w) == [ok |-> TRUE, wall |-> w, aware |-> FALSE, off |-> 0]
Aware(w, o) == [ok |-> TRUE, wall |-> w, aware |-> TRUE, off |-> o]
Malformed == [ok |-> FALSE, wall |-> 0, aware |-> FALSE, off |-> 0]

\* lines 161-164 / 166-169: naive -> replace(tzinfo=local_tz) keeps the clock
\* reading; aware -> astimezone(local_tz) keeps the instant.
Resolve(d) == IF d.aware THEN d.wall - d.off + LocalOffset ELSE d.wall

\* datetime.isoformat() of a local-zone datetime
IsoFormat(w) == Aware(w, LocalOffset)

\* datetime.weekday(): Monday = 0
Weekday(w) == (w \div SlotsPerDay) % DaysPerWeek

AddDays(w, d) == w + d * SlotsPerDay

\* lines 178-179 and 182-183: the same timedelta is added to both
ShiftBothMut(s, e, days) == <<AddDays(s, days), e>>
ShiftBoth(s, e, days) == <<AddDays(s, days), AddDays(e, days)>>

\* line 182: timedelta(days=1)
TomorrowDaysMut == 1 + 1
TomorrowDays == 1

\* line 172: while start_time < now
InPastMut(s, n) == s + SlotsPerDay < n
InPast(s, n) == s < n

\* lines 175-177
DaysAheadMut(s) ==
    LET days_ahead == 5 - Weekday(s)
    IN  IF days_ahead <= 0 THEN days_ahead + DaysPerWeek ELSE days_ahead
DaysAhead(s) ==
    LET days_ahead == FRIDAY - Weekday(s)
    IN  IF days_ahead <= 0 THEN days_ahead + DaysPerWeek ELSE days_ahead

\* str.lower() on the words the model uses
LowerWord(w) ==
    CASE w = "Friday" -> "friday"
      [] w = "FRIDAY" -> "friday"
      [] w = "Lunch"  -> "lunch"
      [] w = "YES"    -> "yes"
      [] w = "Yes"    -> "yes"
      [] w = "No"     -> "no"
      [] OTHER        -> w

\* line 173: 'friday' in event['summary'].lower(); a summary is a sequence of words
MentionsFriday(summary) == \E i \in 1..Len(summary) : LowerWord(summary[i]) = "friday"

\* a decoded event object
Event(has, summary, s, e) ==
    [has_summary |-> has, summary |-> summary, start |-> s, end |-> e]

\* a list element that is not an object (event['start'] raises TypeError)
NotAnObject == Event(FALSE, <<>>, Malformed, Malformed)

----------------------------------------------------------------------------
(* Generated text: a sequence of tokens *)

\* the Markdown fence marker, three backquotes
FENCE == "<fence>"
TagJson == "json"
TagOther == "python"
WS == " "
Prose == "no events here"
ObjTokens == {"objLunch", "objStandup", "objMalformed", "objUntitled"}
ScalarTokens == {"42"}

\* the JSON objects the generated texts of the model contain
Candidate(tok) ==
    CASE tok = "objLunch" ->
           Event(TRUE, <<"Lunch">>, Naive(8 * SlotsPerDay + 24),
                                    Naive(8 * SlotsPerDay + 26))
      [] tok = "objStandup" ->
           Event(TRUE, <<"Friday", "standup">>, Naive(18), Naive(19))
      [] tok = "objMalformed" ->
           Event(TRUE, <<"Lunch">>, Malformed, Naive(8 * SlotsPerDay + 26))
      [] tok = "objUntitled" ->
           Event(FALSE, <<>>, Naive(8 * SlotsPerDay + 24),
                              Naive(8 * SlotsPerDay + 26))
      [] OTHER -> NotAnObject

RECURSIVE SkipWs(_)
SkipWs(s) == IF s # <<>> /\ s[1] = WS THEN SkipWs(Tail(s)) ELSE s

\* line 134: re.sub deletes every match of (fence "json" whitespace*) or of
\* (whitespace* fence); leftmost match first, the first alternative tried
\* first at each position
RECURSIVE SubFencesMut(_)
SubFencesMut(s) ==
    IF s = <<>> THEN <<>>
    ELSE IF Len(s) >= 2 /\ s[1] = FENCE /\ s[2] = TagJson
         THEN SubFencesMut(SkipWs(SubSeq(s, 3, Len(s))))
         ELSE <<s[1]>> \o SubFencesMut(Tail(s))
RECURSIVE SubFences(_)
SubFences(s) ==
    IF s = <<>> THEN <<>>
    ELSE IF Len(s) >= 2 /\ s[1] = FENCE /\ s[2] = TagJson
         THEN SubFences(SkipWs(SubSeq(s, 3, Len(s))))
         ELSE LET r == SkipWs(s)
              IN  IF r # <<>> /\ r[1] = FENCE
                  THEN SubFences(Tail(r))
                  ELSE <<s[1]>> \o SubFences(Tail(s))

RECURSIVE DropTrailingWs(_)
DropTrailingWs(s) ==
    IF s # <<>> /\ s[Len(s)] = WS THEN DropTrailingWs(SubSeq(s, 1, Len(s) - 1)) ELSE s

\* line 134: str.strip()
Strip(s) == DropTrailingWs(SkipWs(s))

\* json.loads skips whitespace between the tokens of a document
NoWs(s) == SelectSeq(s, LAMBDA t : t # WS)

\* the index after the JSON value that starts at s[i], 0 when none starts there
RECURSIVE ValueEnd(_, _)
RECURSIVE ElementsEnd(_, _)
ValueEnd(s, i) ==
    IF i > Len(s) THEN 0
    ELSE IF s[i] \in ObjTokens \cup ScalarTokens THEN i + 1
    ELSE IF s[i] = "["
         THEN IF i + 1 <= Len(s) /\ s[i + 1] = "]" THEN i + 2 ELSE ElementsEnd(s, i + 1)
         ELSE 0
ElementsEnd(s, i) ==
    LET j == ValueEnd(s, i)
    IN  IF j = 0 \/ j > Len(s) THEN 0
        ELSE IF s[j] = "]" THEN j + 1
        ELSE IF s[j] = "," THEN ElementsEnd(s, j + 1)
        ELSE 0

\* the elements of the JSON list whose first element starts at s[i]
RECURSIVE Elements(_, _)
Elements(s, i) ==
    LET j == ValueEnd(s, i)
    IN  <<Candidate(s[i])>> \o (IF s[j] = "," THEN Elements(s, j + 1) ELSE <<>>)

JsonError == [kind |-> "error", items |-> <<>>]

\* line 137: json.loads(json_str); "error" stands for JSONDecodeError
Loads(json_str) ==
    LET s == NoWs(json_str)
    IN  IF s = <<>> \/ ValueEnd(s, 1) # Len(s) + 1 THEN JsonError
        ELSE IF s[1] \in ObjTokens THEN [kind |-> "dict", items |-> <<Candidate(s[1])>>]
        ELSE IF s[1] \in ScalarTokens THEN [kind |-> "scalar", items |-> <<>>]
        ELSE IF Len(s) = 2 THEN [kind |-> "list", items |-> <<>>]
        ELSE [kind |-> "list", items |-> Elements(s, 2)]

\* lines 134-137
ParseText(text) == Loads(Strip(SubFences(text)))

----------------------------------------------------------------------------
(* The chat turn *)

CannedResponse == <<"I'm sorry, but I'm having trouble processing your request">>
ChatReplies == {<<"Sure, I have noted that.">>}
UserMessages == {<<"schedule the standup">>}
Unasked == "<not asked>"
Answers == {"yes", "YES", "no", "y"}
NoDecoded == [kind |-> "none", items |-> <<>>]
Created == "Event created"
Failed == "An error occurred"
Cancelled == "Event creation cancelled."

\* line 61: confirmation.lower() == 'yes'
IsAffirmativeMut(answer) == LowerWord(answer) # "no"
IsAffirmative(answer) == LowerWord(answer) = "yes"

\* lines 68-69
HistoryAppended ==
    conversation_history \o <<[role |-> "user", content |-> user_message],
                              [role |-> "assistant", content |-> llm_response]>>

\* lines 48-50 with _chat_with_llm (73-83): a reply, or the canned response
\* when the completion call raises
Chat ==
    /\ pc \in {"idle", "returned", "crashed"}
    /\ Len(conversation_history) < 2 * MaxTurns
    /\ user_message' \in UserMessages
    /\ llm_response' \in ChatReplies \cup {CannedResponse}
    /\ pc' = "extract"
    /\ extract_response' = <<>>
    /\ decoded' = NoDecoded
    /\ events' = <<>>
    /\ idx' = 0
    /\ start_time' = 0
    /\ end_time' = 0
    /\ detected' = <<>>
    /\ confirmation' = Unasked
    /\ results' = <<>>
    /\ cidx' = 0
    /\ insert_log' = <<>>
    /\ scheduling_results' = <<>>
    /\ UNCHANGED <<conversation_history, now>>

\* the generated texts of the extraction call in the chat-turn specification
TurnTexts ==
    { <<Prose>>,
      <<"42">>,
      <<"[", "]">>,
      <<"objStandup">>,
      <<"objUntitled">>,
      <<"[", "objLunch", ",", "objMalformed", "]">>,
      <<FENCE, TagJson, WS, "[", "objLunch", ",", "objStandup", "]", WS, FENCE>> }

\* lines 122-131: the completion call of _extract_calendar_events returns a text
ExtractCall ==
    /\ pc = "extract"
    /\ extract_response' \in TurnTexts
    /\ pc' = "decode"
    /\ UNCHANGED <<user_message, conversation_history, llm_response, decoded, events,
                   idx, start_time, end_time, now, detected, confirmation, results,
                   cidx, insert_log, scheduling_results>>

\* lines 122-129, 149-151: the completion call raises; caught, returns []
ExtractCallFailsMut ==
    /\ pc = "extract"
    /\ pc' = "crashed"
    /\ UNCHANGED <<user_message, conversation_history, llm_response, extract_response,
                   decoded, events, idx, start_time, end_time, now, detected,
                   confirmation, results, cidx, insert_log, scheduling_results>>
ExtractCallFails ==
    /\ pc = "extract"
    /\ detected' = <<>>
    /\ pc' = "detected"
    /\ UNCHANGED <<user_message, conversation_history, llm_response, extract_response,
                   decoded, events, idx, start_time, end_time, now, confirmation,
                   results, cidx, insert_log, scheduling_results>>

\* lines 134-137 (a JSONDecodeError is kept as decoded.kind = "error")
DecodeJson ==
    /\ pc = "decode"
    /\ decoded' = ParseText(extract_response)
    /\ pc' = "dispatch"
    /\ UNCHANGED <<user_message, conversation_history, llm_response, extract_response,
                   events, idx, start_time, end_time, now, detected, confirmation,
                   results, cidx, insert_log, scheduling_results>>

\* lines 138-148 and 153-155: a list or an object enters _adjust_event_dates,
\* which reads the clock; anything else, and a JSONDecodeError, returns []
IsEventsShapeMut(d) == d.kind \in {"list", "dict", "scalar", "error"}
IsEventsShape(d) == d.kind \in {"list", "dict"}

Dispatch(clock) ==
    /\ pc = "dispatch"
    /\ IF IsEventsShape(decoded)
       THEN /\ events' = decoded.items
            /\ idx' = 1
            /\ now' \in {n \in clock : n >= now}
            /\ pc' = "adj_next"
            /\ UNCHANGED detected
       ELSE /\ detected' = <<>>
            /\ pc' = "detected"
            /\ UNCHANGED <<events, idx, now>>
    /\ UNCHANGED <<user_message, conversation_history, llm_response, extract_response,
                   decoded, start_time, end_time, confirmation, results, cidx,
                   insert_log, scheduling_results>>

----------------------------------------------------------------------------
(* _adjust_event_dates, one step per loop iteration *)

\* lines 149-151: what _extract_calendar_events returns when normalising
\* event i of evs raised
CaughtResultMut(evs, i) == SubSeq(evs, 1, i - 1)
CaughtResult(evs, i) == <<>>

\* lines 156, 188, 139/141: the for loop is over; the list is returned
AdjustReturn ==
    /\ pc = "adj_next"
    /\ idx > Len(events)
    /\ detected' = events
    /\ pc' = "detected"
    /\ UNCHANGED <<user_message, conversation_history, llm_response, extract_response,
                   decoded, events, idx, start_time, end_time, now, confirmation,
                   results, cidx, insert_log, scheduling_results>>

\* lines 157-169: both timestamps parse and are resolved to the local zone
AdjustParse ==
    /\ pc = "adj_next"
    /\ idx <= Len(events)
    /\ events[idx].start.ok /\ events[idx].end.ok
    /\ start_time' = Resolve(events[idx].start)
    /\ end_time' = Resolve(events[idx].end)
    /\ pc' = "adj_loop"
    /\ UNCHANGED <<user_message, conversation_history, llm_response, extract_response,
                   decoded, events, idx, now, detected, confirmation, results, cidx,
                   insert_log, scheduling_results>>

\* lines 157-158: fromisoformat (or the subscript) raises; the exception leaves
\* _adjust_event_dates and is caught at line 149
AdjustParseRaises ==
    /\ pc = "adj_next"
    /\ idx <= Len(events)
    /\ ~(events[idx].start.ok /\ events[idx].end.ok)
    /\ detected' = CaughtResult(events, idx)
    /\ pc' = "detected"
    /\ UNCHANGED <<user_message, conversation_history, llm_response, extract_response,
                   decoded, events, idx, start_time, end_time, now, confirmation,
                   results, cidx, insert_log, scheduling_results>>

\* lines 172-179: one iteration of the while loop, Friday branch
ProjectFriday ==
    /\ pc = "adj_loop"
    /\ InPast(start_time, now)
    /\ events[idx].has_summary
    /\ MentionsFriday(events[idx].summary)
    /\ LET shifted == ShiftBoth(start_time, end_time, DaysAhead(start_time))
       IN  /\ start_time' = shifted[1]
           /\ end_time' = shifted[2]
    /\ UNCHANGED <<pc, user_message, conversation_history, llm_response,
                   extract_response, decoded, events, idx, now, detected, confirmation,
                   results, cidx, insert_log, scheduling_results>>

\* lines 172-173, 180-183: one iteration of the while loop, one-day branch
ProjectDay ==
    /\ pc = "adj_loop"
    /\ InPast(start_time, now)
    /\ events[idx].has_summary
    /\ ~MentionsFriday(events[idx].summary)
    /\ LET shifted == ShiftBoth(start_time, end_time, TomorrowDays)
       IN  /\ start_time' = shifted[1]
           /\ end_time' = shifted[2]
    /\ UNCHANGED <<pc, user_message, conversation_history, llm_response,
                   extract_response, decoded, events, idx, now, detected, confirmation,
                   results, cidx, insert_log, scheduling_results>>

\* line 173: event['summary'] raises KeyError; caught at line 149
ProjectRaises ==
    /\ pc = "adj_loop"
    /\ InPast(start_time, now)
    /\ ~events[idx].has_summary
    /\ detected' = CaughtResult(events, idx)
    /\ pc' = "detected"
    /\ UNCHANGED <<user_message, conversation_history, llm_response, extract_response,
                   decoded, events, idx, start_time, end_time, now, confirmation,
                   results, cidx, insert_log, scheduling_results>>

\* lines 172, 185-186: the loop is left and the event is written back
WriteBack ==
    /\ pc = "adj_loop"
    /\ ~InPast(start_time, now)
    /\ events' = [events EXCEPT ![idx].start = IsoFormat(start_time),
                                ![idx].end = IsoFormat(end_time)]
    /\ idx' = idx + 1
    /\ pc' = "adj_next"
    /\ UNCHANGED <<user_message, conversation_history, llm_response, extract_response,
                   decoded, start_time, end_time, now, detected, confirmation, results,
                   cidx, insert_log, scheduling_results>>

----------------------------------------------------------------------------
(* chat() after the extraction, and _create_calendar_events *)

\* lines 55, 65-71
NoEvents ==
    /\ pc = "detected"
    /\ detected = <<>>
    /\ scheduling_results' = <<>>
    /\ conversation_history' = HistoryAppended
    /\ pc' = "returned"
    /\ UNCHANGED <<user_message, llm_response, extract_response, decoded, events, idx,
                   start_time, end_time, now, detected, confirmation, results, cidx,
                   insert_log>>

\* lines 60, 190-193: event['summary'] raises KeyError in _ask_for_confirmation;
\* the exception leaves chat() and is caught in main (line 260)
ConfirmRaises ==
    /\ pc = "detected"
    /\ detected # <<>>
    /\ \E i \in 1..Len(detected) : ~detected[i].has_summary
    /\ pc' = "crashed"
    /\ UNCHANGED <<user_message, conversation_history, llm_response, extract_response,
                   decoded, events, idx, start_time, end_time, now, detected,
                   confirmation, results, cidx, insert_log, scheduling_results>>

\* lines 55-64, 190-194, 204-205: the operator answers the prompt
Confirm ==
    /\ pc = "detected"
    /\ detected # <<>>
    /\ \A i \in 1..Len(detected) : detected[i].has_summary
    /\ \E answer \in Answers :
         /\ confirmation' = answer
         /\ IF IsAffirmative(answer)
            THEN /\ results' = <<>>
                 /\ cidx' = 1
                 /\ pc' = "creating"
                 /\ UNCHANGED <<scheduling_results, conversation_history>>
            ELSE /\ scheduling_results' = <<Cancelled>>
                 /\ conversation_history' = HistoryAppended
                 /\ pc' = "returned"
                 /\ UNCHANGED <<results, cidx>>
    /\ UNCHANGED <<user_message, llm_response, extract_response, decoded, events, idx,
                   start_time, end_time, now, detected, insert_log>>

\* the ways events().insert(...).execute() ends: it returns, raises HttpError,
\* or raises another exception (transport or credential errors)
InsertOutcomes == {"ok", "HttpError", "OtherError"}

\* lines 213-215: the exceptions the loop body catches
CaughtByLoopMut(outcome) == FALSE
CaughtByLoop(outcome) == outcome = "HttpError"

\* lines 206-215: one iteration of the for loop
Insert ==
    /\ pc = "creating"
    /\ cidx <= Len(detected)
    /\ \E outcome \in InsertOutcomes :
         /\ insert_log' = Append(insert_log, [event |-> detected[cidx],
                                              outcome |-> outcome])
         /\ IF outcome = "ok"
            THEN /\ results' = Append(results, Created)
                 /\ cidx' = cidx + 1
                 /\ pc' = "creating"
            ELSE IF CaughtByLoop(outcome)
            THEN /\ results' = Append(results, Failed)
                 /\ cidx' = cidx + 1
                 /\ pc' = "creating"
            ELSE /\ pc' = "crashed"
                 /\ UNCHANGED <<results, cidx>>
    /\ UNCHANGED <<user_message, conversation_history, llm_response, extract_response,
                   decoded, events, idx, start_time, end_time, now, detected,
                   confirmation, scheduling_results>>

\* lines 216, 62, 68-71
CreateReturn ==
    /\ pc = "creating"
    /\ cidx > Len(detected)
    /\ scheduling_results' = results
    /\ conversation_history' = HistoryAppended
    /\ pc' = "returned"
    /\ UNCHANGED <<user_message, llm_response, extract_response, decoded, events, idx,
                   start_time, end_time, now, detected, confirmation, results, cidx,
                   insert_log>>

----------------------------------------------------------------------------
(* Specifications *)

SeqsUpTo(S, n) == UNION {[1..k -> S] : k \in 0..n}

Blank ==
    /\ user_message = <<>>
    /\ conversation_history = <<>>
    /\ llm_response = <<>>
    /\ extract_response = <<>>
    /\ decoded = NoDecoded
    /\ events = <<>>
    /\ idx = 0
    /\ start_time = 0
    /\ end_time = 0
    /\ now = 0
    /\ detected = <<>>
    /\ confirmation = Unasked
    /\ results = <<>>
    /\ cidx = 0
    /\ insert_log = <<>>
    /\ scheduling_results = <<>>

(* The chat loop: main() calls chat() for every line the operator types *)

\* Saturday 2024-01-06 08:00 and Friday 2024-01-12 09:00
TurnClock == {5 * SlotsPerDay + 16, 11 * SlotsPerDay + 18}

Init == pc = "idle" /\ Blank

Next ==
    \/ Chat
    \/ ExtractCall
    \/ ExtractCallFails
    \/ DecodeJson
    \/ Dispatch(TurnClock)
    \/ AdjustReturn
    \/ AdjustParse
    \/ AdjustParseRaises
    \/ ProjectFriday
    \/ ProjectDay
    \/ ProjectRaises
    \/ WriteBack
    \/ NoEvents
    \/ ConfirmRaises
    \/ Confirm
    \/ Insert
    \/ CreateReturn

Spec == Init /\ [][Next]_vars

(* The parser: _extract_calendar_events from the generated text on *)

Opt(t) == {<<>>, <<t>>}
Prefixes ==
    {a \o b \o c \o d : a \in Opt(WS), b \in Opt(FENCE),
                        c \in {<<>>, <<TagJson>>, <<TagOther>>}, d \in Opt(WS)}
Suffixes == {a \o b \o c : a \in Opt(WS), b \in Opt(FENCE), c \in Opt(WS)}
Bodies == SeqsUpTo({"[", "]", ",", "objLunch", "42"}, MaxBodyLen)
ParseTexts == {p \o b \o q : p \in Prefixes, b \in Bodies, q \in Suffixes}
ParseClock == {5 * SlotsPerDay + 16}

ParseInit ==
    /\ pc = "decode"
    /\ user_message = <<>>
    /\ conversation_history = <<>>
    /\ llm_response = <<>>
    /\ extract_response \in ParseTexts
    /\ decoded = NoDecoded
    /\ events = <<>>
    /\ idx = 0
    /\ start_time = 0
    /\ end_time = 0
    /\ now = 0
    /\ detected = <<>>
    /\ confirmation = Unasked
    /\ results = <<>>
    /\ cidx = 0
    /\ insert_log = <<>>
    /\ scheduling_results = <<>>

ParseNext == DecodeJson \/ Dispatch(ParseClock)

ParseSpec == ParseInit /\ [][ParseNext]_vars

(* The normalizer: _adjust_event_dates on a decoded batch *)

Standup(w) == Event(TRUE, <<"Friday", "standup">>, Naive(w), Naive(w + 1))
Lunch(w) == Event(TRUE, <<"Lunch">>, Naive(w), Naive(w + 1))

EventPool ==
    {Standup(d * SlotsPerDay + 18) : d \in 0..MaxDay}
    \cup {Lunch(d * SlotsPerDay + 18) : d \in {0, MaxDay}}
    \cup { Event(TRUE, <<"FRIDAY", "sync">>, Aware(SlotsPerDay + 16, 0),
                 Aware(2 * SlotsPerDay + 18, 0)),
           Event(TRUE, <<"Team", "Lunch">>, Aware(2 * SlotsPerDay + 16, 0),
                 Naive(2 * SlotsPerDay + 21)),
           Event(TRUE, <<"Lunch">>, Malformed, Naive(19)),
           Event(TRUE, <<"Friday", "standup">>, Naive(18), Malformed),
           Event(FALSE, <<>>, Naive(18), Naive(19)),
           Event(FALSE, <<>>, Naive((MaxNowDay + 1) * SlotsPerDay + 18),
                 Naive((MaxNowDay + 1) * SlotsPerDay + 19)) }

Clock == {d * SlotsPerDay + t : d \in 0..MaxNowDay, t \in {16, 18}}

NormInit ==
    /\ pc = "dispatch"
    /\ user_message = <<>>
    /\ conversation_history = <<>>
    /\ llm_response = <<>>
    /\ extract_response = <<>>
    /\ decoded \in {[kind |-> "list", items |-> l] : l \in SeqsUpTo(EventPool, MaxEvents)}
                   \cup {[kind |-> "dict", items |-> <<e>>] : e \in EventPool}
    /\ events = <<>>
    /\ idx = 0
    /\ start_time = 0
    /\ end_time = 0
    /\ now = 0
    /\ detected = <<>>
    /\ confirmation = Unasked
    /\ results = <<>>
    /\ cidx = 0
    /\ insert_log = <<>>
    /\ scheduling_results = <<>>

NormNext ==
    \/ Dispatch(Clock)
    \/ AdjustReturn
    \/ AdjustParse
    \/ AdjustParseRaises
    \/ ProjectFriday
    \/ ProjectDay
    \/ ProjectRaises
    \/ WriteBack

NormSpec == NormInit /\ [][NormNext]_vars

\* the interpreter runs the loops of _adjust_event_dates to their end
FairNormSpec == NormSpec /\ WF_vars(NormNext)

(* The sink adapter: _create_calendar_events on a normalized batch *)

NormalizedPool ==
    { Event(TRUE, <<"Lunch">>, IsoFormat(8 * SlotsPerDay + 24),
            IsoFormat(8 * SlotsPerDay + 26)),
      Event(TRUE, <<"Friday", "standup">>, IsoFormat(11 * SlotsPerDay + 18),
            IsoFormat(11 * SlotsPerDay + 19)) }

CreateInit ==
    /\ pc = "creating"
    /\ user_message \in UserMessages
    /\ conversation_history = <<>>
    /\ llm_response \in ChatReplies
    /\ extract_response = <<>>
    /\ decoded = NoDecoded
    /\ events = <<>>
    /\ idx = 0
    /\ start_time = 0
    /\ end_time = 0
    /\ now = 0
    /\ detected \in SeqsUpTo(NormalizedPool, MaxBatch)
    /\ confirmation = "yes"
    /\ results = <<>>
    /\ cidx = 1
    /\ insert_log = <<>>
    /\ scheduling_results = <<>>

CreateNext == Insert \/ CreateReturn

CreateSpec == CreateInit /\ [][CreateNext]_vars

----------------------------------------------------------------------------
(* Properties *)

Parseable(e) == e.start.ok /\ e.end.ok
TimeOfDay(w) == w % SlotsPerDay
Duration(e) == Resolve(e.end) - Resolve(e.start)
\* the events of the batch that _adjust_event_dates has written back
Written == {i \in 1..Len(events) : i < idx}
\* event i of the decoded batch was in the past when it was normalized
WasPast(i) == Resolve(decoded.items[i].start) < now

\* C1 (as claimed): every event of the list _adjust_event_dates returns starts
\* strictly after the reference instant now.
C1_StartStrictlyAfterNow ==
    pc = "detected" =>
        \A i \in 1..Len(detected) : Resolve(detected[i].start) > now

\* C1 (amended): every event of the list _adjust_event_dates returns starts at
\* or after the reference instant now; a start equal to now is left as it is.
C1_StartNotBeforeNow ==
    /\ \A i \in Written : Resolve(events[i].start) >= now
    /\ pc = "detected" =>
         \A i \in 1..Len(detected) :
            /\ Resolve(detected[i].start) >= now
            /\ Resolve(decoded.items[i].start) = now
                 => Resolve(detected[i].start) = now

C1_Witness ==
    /\ pc = "detected"
    /\ Len(detected) = 2
    /\ WasPast(1) /\ Resolve(detected[1].start) = now
    /\ decoded.items[2].start.aware /\ Resolve(detected[2].start) > now

\* C2: a forward-projected event keeps its duration: end - start of the
\* written-back event equals end - start of the event as decoded, on both
\* branches and after any number of iterations.
C2_DurationPreserved ==
    /\ \A i \in Written : WasPast(i) => Duration(events[i]) = Duration(decoded.items[i])
    /\ pc = "adj_loop" /\ WasPast(idx)
         => end_time - start_time = Duration(decoded.items[idx])

C2_Witness ==
    /\ pc = "detected"
    /\ Len(detected) = 2
    /\ MentionsFriday(detected[1].summary) /\ ~MentionsFriday(detected[2].summary)
    /\ Resolve(detected[1].start) = AddDays(Resolve(decoded.items[1].start), 10)
    /\ Resolve(detected[2].start) = AddDays(Resolve(decoded.items[2].start), 5)
    /\ Duration(detected[1]) > SlotsPerDay

\* C3 (as claimed): a timestamp that does not parse excludes only its own
\* event; every event of the batch whose timestamps parse is returned.
C3_SiblingsReturned ==
    (pc = "detected" /\ \A i \in 1..Len(decoded.items) : decoded.items[i].has_summary)
        => Len(detected) = Cardinality({i \in 1..Len(decoded.items) :
                                           Parseable(decoded.items[i])})

\* C3 (amended): a timestamp that does not parse in any event of the batch makes
\* the extraction call return the empty list: no sibling event is returned.
C3_BatchDropped ==
    (pc = "detected" /\ \E i \in 1..Len(decoded.items) : ~Parseable(decoded.items[i]))
        => detected = <<>>

C3_Witness ==
    /\ pc = "detected"
    /\ Len(decoded.items) = 2
    /\ Parseable(decoded.items[1]) /\ ~Parseable(decoded.items[2])
    /\ decoded.items[1].has_summary /\ WasPast(1)
    /\ events[1] # decoded.items[1]
    /\ detected = <<>>

\* C4 (as claimed): whenever _create_calendar_events has ended, it has attempted
\* one insert per event and recorded one outcome per event, "created" exactly
\* for the inserts that succeeded and "failed" exactly for those that raised.
C4_EveryFailureRecorded ==
    pc \in {"returned", "crashed"} =>
        /\ Len(insert_log) = Len(detected)
        /\ Len(results) = Len(detected)
        /\ \A i \in 1..Len(detected) :
              /\ insert_log[i].event = detected[i]
              /\ results[i] = Created <=> insert_log[i].outcome = "ok"
              /\ results[i] = Failed <=> insert_log[i].outcome # "ok"

\* C4 (amended): inserts are attempted one per event in input order; when every
\* failing insert raises HttpError the call returns one outcome per event,
\* "created" exactly for the inserts that succeeded and "failed" exactly for
\* those that raised HttpError; an insert that raises any other exception is
\* not caught: the call ends there, returns no outcomes and attempts no
\* further insert.
C4_PartialSubmission ==
    /\ \A i \in 1..Len(insert_log) : insert_log[i].event = detected[i]
    /\ Len(insert_log) <= Len(detected)
    /\ pc = "returned" =>
         /\ Len(insert_log) = Len(detected)
         /\ Len(scheduling_results) = Len(detected)
         /\ \A i \in 1..Len(detected) :
               /\ scheduling_results[i] = Created <=> insert_log[i].outcome = "ok"
               /\ scheduling_results[i] = Failed <=> insert_log[i].outcome = "HttpError"
    /\ pc = "crashed" =>
         /\ insert_log # <<>>
         /\ insert_log[Len(insert_log)].outcome = "OtherError"
         /\ \A i \in 1..(Len(insert_log) - 1) : insert_log[i].outcome # "OtherError"
         /\ scheduling_results = <<>>

C4_Witness ==
    /\ pc = "returned"
    /\ Len(detected) = 3
    /\ scheduling_results = <<Created, Failed, Created>>
    /\ insert_log[2].outcome = "HttpError"

\* C5: no insert is attempted in a turn unless the confirmation was asked in
\* that turn and answered "yes" in any letter case; a turn with any other
\* answer, or with no detected event, returns with no insert attempted and no
\* "created" outcome.
Affirmative == {"yes", "YES", "Yes", "yES", "yeS", "YEs", "yEs", "YeS"}

C5_ConfirmationGate ==
    /\ insert_log # <<>> => (confirmation \in Affirmative /\ detected # <<>>)
    /\ pc = "creating" => confirmation \in Affirmative
    /\ (pc = "returned" /\ (detected = <<>> \/ confirmation \notin Affirmative)) =>
          /\ insert_log = <<>>
          /\ \A i \in 1..Len(scheduling_results) : scheduling_results[i] # Created

C5_Witness ==
    /\ pc = "returned"
    /\ detected # <<>>
    /\ confirmation = "y"
    /\ scheduling_results = <<Cancelled>>
    /\ insert_log = <<>>

\* C6: a generated text that, after fence stripping, is no JSON document, or is
\* a JSON scalar, makes _extract_calendar_events return the empty list without
\* raising: the normalizer is not entered and the turn goes on with no event.
C6_SoftDecode ==
    (pc \notin {"decode", "dispatch"} /\ decoded.kind \in {"error", "scalar"}) =>
        /\ pc = "detected"
        /\ detected = <<>>
        /\ events = <<>>

C6_Witness ==
    /\ pc = "detected"
    /\ extract_response = <<FENCE, TagJson, WS, "[", "objLunch", WS, FENCE>>
    /\ decoded.kind = "error"
    /\ detected = <<>>

\* C7 (as claimed): in a turn whose completion call for the user's message
\* failed, no event is detected, no confirmation is asked and no insert is
\* attempted, whatever the extraction call returns.
C7_FailedChatDetectsNothing ==
    (llm_response = CannedResponse /\ pc \in {"detected", "creating", "returned", "crashed"})
        => /\ detected = <<>>
           /\ confirmation = Unasked
           /\ insert_log = <<>>

\* C7 (amended): in a turn whose completion call for the user's message failed,
\* the response of the turn is the canned apology; the turn detects no event,
\* asks no confirmation and attempts no insert when the extraction call fails
\* too (or its text yields no event), and otherwise handles the events of the
\* extraction call as in any other turn.
C7_FailedChatThenFailedExtraction ==
    (llm_response = CannedResponse /\ pc \in {"detected", "creating", "returned", "crashed"})
        => /\ pc = "returned" =>
                conversation_history[Len(conversation_history)]
                    = [role |-> "assistant", content |-> CannedResponse]
           /\ (decoded.kind = "none" \/ (pc = "returned" /\ detected = <<>>)) =>
                /\ pc \in {"detected", "returned"}
                /\ detected = <<>>
                /\ confirmation = Unasked
                /\ insert_log = <<>>
                /\ scheduling_results = <<>>

C7_Witness ==
    /\ llm_response = CannedResponse
    /\ pc = "returned"
    /\ decoded.kind = "none"
    /\ detected = <<>>
    /\ scheduling_results = <<>>

\* a Markdown code fence around the JSON text J: opening marker, language tag
\* (or none), optional whitespace, J, optional whitespace, closing marker
Wrappings(J, tags) ==
    {<<FENCE>> \o t \o a \o J \o b \o <<FENCE>> : t \in tags, a \in Opt(WS), b \in Opt(WS)}
JsonTexts == {J \in Bodies : Loads(J).kind # "error"}
Fenced(text) == Len(text) >= 2 /\ text[1] = FENCE /\ text[Len(text)] = FENCE

\* C8 (as claimed): a JSON text wrapped in a code fence with no language tag or
\* with any language tag decodes to the same candidate events as the text itself.
C8_AnyFenceStripped ==
    (decoded.kind # "none" /\ Fenced(extract_response)) =>
        \A J \in JsonTexts :
            extract_response \in Wrappings(J, {<<>>, <<TagJson>>, <<TagOther>>})
                => decoded = ParseText(J)

\* C8 (amended): a JSON text wrapped in a code fence with no language tag or
\* with the language tag json decodes to the same candidate events as the text
\* itself.
C8_JsonFenceStripped ==
    (decoded.kind # "none" /\ Fenced(extract_response)) =>
        \A J \in JsonTexts :
            extract_response \in Wrappings(J, {<<>>, <<TagJson>>})
                => decoded = ParseText(J) /\ decoded = Loads(J)

C8_Witness ==
    /\ extract_response = <<FENCE, TagJson, WS, "[", "objLunch", "]", WS, FENCE>>
    /\ decoded = [kind |-> "list", items |-> <<Candidate("objLunch")>>]
    /\ pc = "adj_next"

\* the event under the while loop mentions Friday / does not
FridayEvent(i) == decoded.items[i].has_summary /\ MentionsFriday(decoded.items[i].summary)
PlainEvent(i) == decoded.items[i].has_summary /\ ~MentionsFriday(decoded.items[i].summary)

\* C9: for a past event whose summary mentions Friday, each projection step
\* moves start and end by the same days to a strictly later Friday, 4 - weekday
\* days when that is positive and 7 days from a Friday; the written-back start
\* is a Friday at the original time of day. Start Mon 2024-01-01T09:00 with
\* now Sat 2024-01-06T08:00 ends at Fri 2024-01-12T09:00, end at 09:30.
C9_FridayStep ==
    (pc = "adj_loop" /\ pc' = "adj_loop" /\ FridayEvent(idx)) =>
        /\ start_time' > start_time
        /\ Weekday(start_time') = 4
        /\ TimeOfDay(start_time') = TimeOfDay(start_time)
        /\ end_time' - end_time = start_time' - start_time
        /\ Weekday(start_time) < 4 =>
              start_time' = AddDays(start_time, 4 - Weekday(start_time))
        /\ Weekday(start_time) = 4 => start_time' = AddDays(start_time, 7)

C9_FridayFinal ==
    \A i \in Written : (FridayEvent(i) /\ WasPast(i)) =>
        /\ Weekday(Resolve(events[i].start)) = 4
        /\ TimeOfDay(Resolve(events[i].start))
             = TimeOfDay(Resolve(decoded.items[i].start))
        /\ Resolve(events[i].start) > Resolve(decoded.items[i].start)
        /\ (decoded.items[i] = Standup(18) /\ now = 5 * SlotsPerDay + 16) =>
              /\ events[i].start = IsoFormat(11 * SlotsPerDay + 18)
              /\ events[i].end = IsoFormat(11 * SlotsPerDay + 19)

C10_FirstDayStrictlyAfter ==
    \A i \in Written : (PlainEvent(i) /\ WasPast(i)) =>
        /\ Resolve(events[i].start) > now
        /\ AddDays(Resolve(events[i].start), -1) <= now

\* C10 (amended): for a past event whose summary does not mention Friday the
\* loop terminates, each step advances start and end by exactly one day, and
\* the final start is the original start plus k days for the smallest k >= 1
\* whose result is at or after the reference instant now.
C10_DayStep ==
    (pc = "adj_loop" /\ pc' = "adj_loop" /\ PlainEvent(idx)) =>
        /\ start_time' = AddDays(start_time, 1)
        /\ end_time' = AddDays(end_time, 1)

C10_FirstDayNotBefore ==
    \A i \in Written : (PlainEvent(i) /\ WasPast(i)) =>
        LET k == (Resolve(events[i].start) - Resolve(decoded.items[i].start))
                     \div SlotsPerDay
        IN  /\ k >= 1
            /\ Resolve(events[i].start) = AddDays(Resolve(decoded.items[i].start), k)
            /\ Resolve(events[i].end) = AddDays(Resolve(decoded.items[i].end), k)
            /\ Resolve(events[i].start) >= now
            /\ AddDays(Resolve(events[i].start), -1) < now

C10_LoopEnds == (pc = "adj_loop" /\ PlainEvent(idx)) ~> (pc # "adj_loop")

\* C10 (amended): every one-day step adds exactly one day (C10_DayStep), the
\* written-back start is the first whole-day step at or after now
\* (C10_FirstDayNotBefore), and the loop terminates (C10_LoopEnds).
C10_NonWeekdayFallback ==
    [][C10_DayStep]_vars /\ []C10_FirstDayNotBefore /\ C10_LoopEnds

C10_Witness ==
    /\ pc = "adj_next"
    /\ 1 \in Written
    /\ PlainEvent(1)
    /\ Resolve(events[1].start) = AddDays(Resolve(decoded.items[1].start), 3)
    /\ Resolve(events[1].start) = now

====
